---- MODULE Spec2Model ----
(***************************************************************************)
(* Model of STM32BinaryFlasher: src/stlink.py (STLink_USBInterface, the    *)
(* device registry, and STLink, the session that issues st-flash commands) *)
(* and src/flasher.py (STM32BinaryFlasher).                                *)
(*                                                                         *)
(* Text is modelled as a sequence of atoms: every word, number literal and *)
(* punctuation mark the code looks at is one atom, and " " and "\n" are    *)
(* atoms of their own, so that split, strip, "in" and endswith are         *)
(* computed, not assumed.  Python values stored in the dictionaries are    *)
(* tagged ([t |-> "int" | "str" | "None", v |-> ...]) because a dictionary *)
(* entry holds a raw string before coercion and an int after it.           *)
(*                                                                         *)
(* The external tools are the environment: what st-info --probe prints is  *)
(* an input of each discovery pass, the USB bus (variable bus) decides what *)
(* lsusb lists and what st-info --serial answers, and the exit status of   *)
(* st-flash is an input of each command.  lsusb itself is taken to exit 0. *)
(***************************************************************************)
EXTENDS Integers, Sequences, FiniteSets, TLC

SP == " "
NL == "\n"

\* ------------------------------------------------------------ bounds
\* most entries discover_devices may have accumulated in stlink_devices
MaxDevices == 2
\* number of USB slots of the modelled host (lsusb lists them in slot order)
NumSlots == 2

NoText == <<>>

\* ------------------------------------------------------------ Python values
PyInt(n) == [t |-> "int", v |-> n]
PyStr(s) == [t |-> "str", v |-> s]
None == [t |-> "None", v |-> 0]

\* == of Python: values of different types are unequal, never an error
PyEq(a, b) == a.t = b.t /\ a.v = b.v

\* truth value of Python: None, 0, '' and {} are false
Truthy(x) == CASE x.t = "None" -> FALSE
               [] x.t = "int" -> x.v # 0
               [] OTHER -> x.v # <<>>

\* the empty dictionary {} ; a dictionary is a function from keys to values
EmptyDict == <<>>

\* d[k] = v of Python (adds the key or overwrites it)
DictSet(d, k, v) == [x \in (DOMAIN d) \cup {k} |-> IF x = k THEN v ELSE d[x]]

\* ------------------------------------------------------------ str methods
\* s.split(sep): the pieces between the separators; always at least one piece,
\* empty pieces kept
Split(s, sep) ==
    LET at == {i \in 1..Len(s) : s[i] = sep}
        \* position of the k-th separator; 0 before the first, Len(s) + 1 after the last
        Nth(k) == IF k = 0 THEN 0
                  ELSE IF k > Cardinality(at) THEN Len(s) + 1
                  ELSE CHOOSE p \in at : Cardinality({q \in at : q < p}) = k - 1
    IN  [k \in 1..(Cardinality(at) + 1) |-> SubSeq(s, Nth(k - 1) + 1, Nth(k) - 1)]

RECURSIVE LStripSet(_, _)
LStripSet(s, chars) ==
    IF s # <<>> /\ Head(s) \in chars THEN LStripSet(Tail(s), chars) ELSE s

RECURSIVE RStripSet(_, _)
RStripSet(s, chars) ==
    IF s # <<>> /\ s[Len(s)] \in chars
    THEN RStripSet(SubSeq(s, 1, Len(s) - 1), chars) ELSE s

\* s.strip(chars)
StripSet(s, chars) == RStripSet(LStripSet(s, chars), chars)

\* s.strip(): whitespace
Strip(s) == StripSet(s, {SP, NL})

\* s.replace(old, ''), old one atom
RemoveAtom(s, old) == SelectSeq(s, LAMBDA a : a # old)

\* needle in haystack (str): a contiguous run of the haystack
Contains(haystack, needle) ==
    \E i \in 0..(Len(haystack) - Len(needle)) :
        \A j \in 1..Len(needle) : haystack[i + j] = needle[j]

\* s.endswith(suffix)
EndsWith(s, suffix) ==
    /\ Len(s) >= Len(suffix)
    /\ SubSeq(s, Len(s) - Len(suffix) + 1, Len(s)) = suffix

\* list(filter(None, pieces)): drops the empty strings
FilterNone(pieces) == SelectSeq(pieces, LAMBDA p : p # <<>>)

\* [f(x) for x in pieces]
RECURSIVE MapStrip(_)
MapStrip(pieces) ==
    IF pieces = <<>> THEN <<>> ELSE <<Strip(Head(pieces))>> \o MapStrip(Tail(pieces))

\* lst[a:b] with 0-based a, b (clamped like a Python slice)
Slice(lst, a, b) ==
    SubSeq(lst, a + 1, IF b > Len(lst) THEN Len(lst) ELSE b)

\* ------------------------------------------------------------ int()
\* the decimal literals the modelled tool outputs contain
DecLiteral == [lit \in {"0", "1", "2", "12345", "1024", "256"} |->
    CASE lit = "0" -> 0 [] lit = "1" -> 1 [] lit = "2" -> 2
      [] lit = "12345" -> 12345 [] lit = "1024" -> 1024 [] lit = "256" -> 256]

\* hexadecimal literals (int(x, 16) accepts an optional 0x prefix)
HexLiteral == [lit \in {"0", "1", "2", "0x0451", "0x0421", "0x0413", "12345", "1024", "256"} |->
    CASE lit = "0" -> 0 [] lit = "1" -> 1 [] lit = "2" -> 2
      [] lit = "0x0451" -> 1105 [] lit = "0x0421" -> 1057 [] lit = "0x0413" -> 1043
      [] lit = "12345" -> 74565 [] lit = "1024" -> 4132 [] lit = "256" -> 598]

Raised(exc) == [exc |-> exc, val |-> None]
Returned(val) == [exc |-> "", val |-> val]

\* int(x): an int is returned as it is, a str is parsed in base 10
IntDec(x) ==
    IF x.t = "int" THEN Returned(x)
    ELSE IF x.t = "str"
    THEN IF Len(x.v) = 1 /\ x.v[1] \in DOMAIN DecLiteral
         THEN Returned(PyInt(DecLiteral[x.v[1]]))
         ELSE Raised("ValueError")
    ELSE Raised("TypeError")

\* int(x, 16): only a str may be given with an explicit base
IntHex(x) ==
    IF x.t = "str"
    THEN IF Len(x.v) = 1 /\ x.v[1] \in DOMAIN HexLiteral
         THEN Returned(PyInt(HexLiteral[x.v[1]]))
         ELSE Raised("ValueError")
    ELSE Raised("TypeError")

\* ------------------------------------------------------------ the host's USB bus
\* what may sit in a USB slot: nothing, a device of another vendor, an ST-Link
\* with serial 12345 or 1, or an ST-Link whose scoped serial read fails
Adapters == {"stlinkA", "stlinkB", "busy"}
Occupants == {"none", "hub"} \cup Adapters

Slots == 1..NumSlots

\* bus and device number lsusb prints for a slot
SlotBus(k) == IF k <= 2 THEN "003" ELSE "001"
SlotDevice(k) == CASE k = 1 -> "012" [] k = 2 -> "014" [] k = 3 -> "002" [] OTHER -> "005"

\* vendor:product lsusb prints
UsbId(occ) == CASE occ = "hub" -> <<"1d6b", ":", "0002">>
                [] occ = "stlinkA" -> <<"0483", ":", "3748">>
                [] OTHER -> <<"0483", ":", "374b">>

\* the serial number of an adapter, 0 when `st-info --serial` cannot read one
SerialOf(occ) == CASE occ = "stlinkA" -> 12345 [] occ = "stlinkB" -> 1 [] OTHER -> 0

STLINK_VENDOR_ID == <<"0483">>

VARIABLES
    bus,             \* environment: Slots -> Occupants, what is plugged in where
    stlink_devices,  \* STLink_USBInterface.stlink_devices: list of dicts
    usb_devices,     \* STLink_USBInterface.usb_devices: None or list of dicts
    attached,        \* which object attached_device refers to: 0 the dict held in
                     \* attached_obj, i > 0 the very dict stlink_devices[i]
    attached_obj,    \* the dict attached_device refers to when attached = 0
    files,           \* the file system: file name -> saved document
    session,         \* TRUE once STLink(usb_dev) has been constructed
    device,          \* STM32BinaryFlasher.device
    last             \* the call that ran last and how it ended

vars == <<bus, stlink_devices, usb_devices, attached, attached_obj, files, session,
          device, last>>

K(name) == <<name>>

\* the groups of device_re for one lsusb line, with dinfo['device'] built (l.142-143)
DInfo(w, k) ==
    [id |-> UsbId(w[k]),
     device |-> <<"/", "dev", "/", "bus", "/", "usb", "/", SlotBus(k), "/", SlotDevice(k)>>]

RECURSIVE LsusbFrom(_, _)
LsusbFrom(w, k) ==
    IF k > NumSlots THEN <<>>
    ELSE (IF w[k] = "none" THEN <<>> ELSE <<DInfo(w, k)>>) \o LsusbFrom(w, k + 1)

\* _get_usb_devices: every device lsusb lists, filtered for the ST-Link vendor id
GetUsbDevices(w) ==
    SelectSeq(LsusbFrom(w, 1), LAMBDA d : Contains(d.id, STLINK_VENDOR_ID))

\* the port "<bus>:<addr>" of a USB slot, as STLINK_DEVICE expects it
SlotPort(k) == <<SlotBus(k), ":", SlotDevice(k)>>

\* what `st-info --serial` prints for an adapter
SerialText(occ) == IF occ = "stlinkA" THEN <<"12345", NL>> ELSE <<"1", NL>>

\* `st-info --serial` under STLINK_DEVICE=port: exit status and stdout
StInfoSerial(w, port) ==
    IF \E k \in Slots : SlotPort(k) = port /\ SerialOf(w[k]) # 0
    THEN LET k == CHOOSE k \in Slots : SlotPort(k) = port /\ SerialOf(w[k]) # 0
         IN  [returncode |-> 0, stdout |-> SerialText(w[k])]
    ELSE [returncode |-> 1, stdout |-> NoText]

\* get_serial_number(port) (l.112-123): the command is built by str + port
get_serial_number(w, port) ==
    IF port.t # "str" THEN Raised("TypeError")
    ELSE LET raw_output == StInfoSerial(w, port.v)
         IN  IF raw_output.returncode = 0
             THEN IntDec(PyStr(StripSet(raw_output.stdout, {NL})))
             ELSE Returned(PyInt(-1))

\* usb_port of one usb_devices entry (l.104-105)
UsbPortOf(usb_device) ==
    LET port_split == FilterNone(Split(usb_device.device, "/"))
    IN  port_split[4] \o <<":">> \o port_split[5]

\* a scan that keeps looking after a match and returns the last one
RECURSIVE ScanKeepLast(_, _, _, _)
ScanKeepLast(w, devs, i, serial) ==
    IF i > Len(devs) THEN Returned(None)
    ELSE LET usb_port == PyStr(UsbPortOf(devs[i]))
             read == get_serial_number(w, usb_port)
             later == ScanKeepLast(w, devs, i + 1, serial)
         IN  IF read.exc # "" THEN read
             ELSE IF later.exc # "" \/ later.val.t = "str" THEN later
             ELSE IF PyEq(serial, read.val) THEN Returned(usb_port)
             ELSE Returned(None)

\* the loop of get_port_from_serial (l.102-110) from entry i on
RECURSIVE ScanFrom(_, _, _, _)
ScanFrom(w, devs, i, serial) ==
    IF i > Len(devs) THEN Returned(None)
    ELSE LET usb_port == PyStr(UsbPortOf(devs[i]))
             read == get_serial_number(w, usb_port)
         IN  IF read.exc # "" THEN read
             ELSE IF PyEq(serial, read.val) THEN Returned(usb_port)
             ELSE ScanFrom(w, devs, i + 1, serial)

\* get_port_from_serial(serial): the exception it ends in, the result and the
\* refreshed self.usb_devices
get_port_from_serial(w, serial) ==
    IF serial.t # "int"
    THEN [exc |-> "AssertionError", val |-> None, usb_devices |-> <<>>, enumerated |-> FALSE]
    ELSE LET devs == GetUsbDevices(w)
             found == ScanFrom(w, devs, 1, serial)
         IN  [exc |-> found.exc, val |-> found.val, usb_devices |-> devs,
              enumerated |-> TRUE]

\* ------------------------------------------------------------ st-info --probe
FoundZero == <<"Found", SP, "0", SP, "stlink", SP, "programmers">>

\* one pass of `for field in device_data` (l.180-182) over fields j..: the dict
\* as far as it got, and the exception that stopped it
RECURSIVE FieldLoop(_, _, _)
FieldLoop(d, device_data, j) ==
    IF j > Len(device_data) THEN [exc |-> "", d |-> d]
    ELSE LET data == Split(device_data[j], SP)
         IN  IF Len(data) < 2 THEN [exc |-> "IndexError", d |-> d]
             ELSE FieldLoop(DictSet(d, StripSet(data[1], {":"}), PyStr(data[2])),
                            device_data, j + 1)

\* .strip('"') of l.190 and .replace('\\x', '') of l.191
StripQuotes(x) == Returned(PyStr(StripSet(x.v, {"\""})))
DropHexEscapes(x) == Returned(PyStr(RemoveAtom(x.v, "\\x")))

\* the conversions of l.185-191 by name
Convert(how, x) ==
    CASE how = "int" -> IntDec(x)
      [] how = "int16" -> IntHex(x)
      [] how = "strip" -> StripQuotes(x)
      [] OTHER -> DropHexEscapes(x)

\* d[key] = convert(d[key]), one statement of l.185-191, unless an earlier one raised
Coerce(r, key, how) ==
    IF r.exc # "" THEN r
    ELSE IF key \notin DOMAIN r.d THEN [exc |-> "KeyError", d |-> r.d]
    ELSE LET c == Convert(how, r.d[key])
         IN  IF c.exc # "" THEN [exc |-> c.exc, d |-> r.d]
             ELSE [exc |-> "", d |-> DictSet(r.d, key, c.val)]

\* "Apply special filtering to known probe return values" (l.185-191)
ApplyFiltering(r) ==
    Coerce(Coerce(Coerce(Coerce(Coerce(Coerce(r,
        K("serial"), "int"), K("flash"), "int"), K("sram"), "int"),
        K("chipid"), "int16"), K("openocd"), "strip"), K("openocd"), "replace")

\* the body of `for i in range(0, total_found)` (l.173-191), i 0-based, from i on
RECURSIVE ProbeLoop(_, _, _, _)
ProbeLoop(devs, probe_data, i, total_found) ==
    IF i >= total_found THEN [exc |-> "", devs |-> devs]
    ELSE LET appended == Append(devs, EmptyDict)
             offset == i * 6
             device_data == Slice(probe_data, 0 + offset, 6 + offset)
             r == ApplyFiltering(FieldLoop(appended[i + 1], device_data, 1))
             devs2 == [appended EXCEPT ![i + 1] = r.d]
         IN  IF r.exc # "" THEN [exc |-> r.exc, devs |-> devs2]
             ELSE ProbeLoop(devs2, probe_data, i + 1, total_found)

\* _stlink_probe on the captured stdout: the exception it ends in ("" for none)
\* and self.stlink_devices afterwards
stlink_probe(devs, stdout) ==
    LET probe_data == FilterNone(MapStrip(Split(stdout, NL)))
    IN  IF probe_data = <<>> THEN [exc |-> "IndexError", devs |-> devs]
        ELSE IF probe_data[1] # FoundZero
        THEN LET words == Split(probe_data[1], SP)
                 total == IF Len(words) < 2 THEN Raised("IndexError")
                          ELSE IntDec(PyStr(words[2]))
             IN  IF total.exc # "" THEN [exc |-> total.exc, devs |-> devs]
                 ELSE ProbeLoop(devs, Tail(probe_data), 0, total.val.v)
        ELSE [exc |-> "", devs |-> devs]

\* _assign_port_to_device from entry i (1-based) on: stops at the first exception
RECURSIVE AssignFrom(_, _, _, _)
AssignFrom(w, devs, usb, i) ==
    IF i > Len(devs) THEN [exc |-> "", devs |-> devs, usb_devices |-> usb]
    ELSE IF K("serial") \notin DOMAIN devs[i]
    THEN [exc |-> "KeyError", devs |-> devs, usb_devices |-> usb]
    ELSE LET r == get_port_from_serial(w, devs[i][K("serial")])
         IN  IF r.exc # ""
             THEN [exc |-> r.exc, devs |-> devs,
                   usb_devices |-> IF r.enumerated THEN r.usb_devices ELSE usb]
             ELSE AssignFrom(w, [devs EXCEPT ![i] = DictSet(@, K("usb_port"), r.val)],
                             r.usb_devices, i + 1)

\* discover_devices (l.36-55)
discover_devices(w, devs, usb, stdout) ==
    LET probed == stlink_probe(devs, stdout)
    IN  IF probed.exc # ""
        THEN [exc |-> probed.exc, devs |-> probed.devs, usb_devices |-> usb,
              enumerated |-> FALSE]
        ELSE IF probed.devs # <<>>
        THEN AssignFrom(w, probed.devs, GetUsbDevices(w), 1) @@ [enumerated |-> TRUE]
        ELSE [exc |-> "", devs |-> probed.devs, usb_devices |-> usb,
              enumerated |-> FALSE]

\* ------------------------------------------------------------ probe outputs
Field(key, value) == <<SP, key, ":", SP>> \o value \o <<NL>>

Found(n) == <<"Found", SP, n, SP, "stlink", SP, "programmers", NL>>

\* the six lines st-info prints for one adapter
Block(serial, chipid) ==
    Field("serial", <<serial>>)
    \o Field("openocd", <<"\"", "\\x", "30", "\\x", "31", "\"">>)
    \o Field("flash", <<"1024", SP, "(", "pagesize", ":", SP, "2", ")">>)
    \o Field("sram", <<"256">>)
    \o Field("chipid", <<chipid>>)
    \o Field("descr", <<"F7", SP, "device">>)

\* a block that lacks its chipid line
TruncatedBlock(serial) ==
    Field("serial", <<serial>>)
    \o Field("openocd", <<"\"", "\\x", "30", "\\x", "31", "\"">>)
    \o Field("flash", <<"1024">>)
    \o Field("sram", <<"256">>)
    \o Field("descr", <<"F7", SP, "device">>)

\* a block whose flash size is no number
BadFlashBlock(serial, chipid) ==
    Field("serial", <<serial>>)
    \o Field("openocd", <<"\"", "\\x", "30", "\\x", "31", "\"">>)
    \o Field("flash", <<"unknown">>)
    \o Field("sram", <<"256">>)
    \o Field("chipid", <<chipid>>)
    \o Field("descr", <<"F7", SP, "device">>)

ProbeOneA == Found("1") \o Block("12345", "0x0451")
ProbeOneB == Found("1") \o Block("1", "0x0421")
ProbeTwo == Found("2") \o Block("12345", "0x0451") \o Block("1", "0x0421")
ProbeZero == Found("0")
ProbeTruncated == Found("1") \o TruncatedBlock("12345")
ProbeBadFlash == Found("1") \o BadFlashBlock("1", "0x0421")
ProbeUnknownChip == Found("1") \o Block("1", "0x0413")
ProbeNothing == <<>>

\* outputs that follow the format of st-info --probe
WellFormedProbes == {ProbeOneA, ProbeOneB, ProbeTwo}
MalformedProbes == {ProbeTruncated, ProbeBadFlash, ProbeNothing}

\* ------------------------------------------------------------ registry state
\* self.attached_device: the dict the reference points to
attached_device == IF attached = 0 THEN attached_obj ELSE stlink_devices[attached]

\* a store through the reference attached_device[...] = ...: the dict is shared
\* with found_devices when it was attached from there
StoreAttached(d) ==
    IF attached = 0
    THEN attached_obj' = d /\ stlink_devices' = stlink_devices
    ELSE attached_obj' = attached_obj
         /\ stlink_devices' = [stlink_devices EXCEPT ![attached] = d]

\* found_devices property (l.216-218)
found_devices == stlink_devices

\* what `last` records of a call: the operation, the exception it ended in ("" when
\* it returned), its return value, the file it was given, the port and the shell
\* command it used and that command's exit status, the tool output it was given,
\* and whether it ran USB enumeration
NoCall ==
    [op |-> "", exc |-> "", ret |-> None, path |-> NoText, port |-> None,
     cmd |-> NoText, rc |-> 0, stdout |-> NoText, enumerated |-> FALSE,
     expected |-> NoText, serial |-> 0]

PyList(l) == [t |-> "list", v |-> l]

FileNames == {<<"dev", ".json">>, <<"dev", ".txt">>}
DeviceNames == {<<"stm32f767zit">>, <<"nucleo">>}

Init ==
    /\ bus = [k \in Slots |-> "none"]
    /\ stlink_devices = <<>>
    /\ usb_devices = None
    /\ attached = 0
    /\ attached_obj = EmptyDict
    /\ files = EmptyDict
    /\ session = FALSE
    /\ device = EmptyDict
    /\ last = [NoCall EXCEPT !.op = "init"]

\* the environment: an ST-Link adapter is pulled from a slot, or one that is not
\* plugged in yet is plugged into a slot
Replug ==
    /\ \E k \in Slots, occ \in {"none", "stlinkA", "stlinkB"} :
          /\ bus[k] # occ
          /\ occ = "none" \/ \A j \in Slots : bus[j] # occ
          /\ bus' = [bus EXCEPT ![k] = occ]
    /\ last' = [NoCall EXCEPT !.op = "replug"]
    /\ UNCHANGED <<stlink_devices, usb_devices, attached, attached_obj, files,
                   session, device>>

\* the environment: a clone adapter, reporting the serial of one already plugged
\* in, is plugged into a slot
PlugClone ==
    /\ \E k \in Slots, occ \in {"stlinkA", "stlinkB"} :
          /\ bus[k] # occ
          /\ \E j \in Slots : bus[j] = occ
          /\ bus' = [bus EXCEPT ![k] = occ]
    /\ last' = [NoCall EXCEPT !.op = "replug"]
    /\ UNCHANGED <<stlink_devices, usb_devices, attached, attached_obj, files,
                   session, device>>

\* the environment: an adapter stays plugged in but stops answering serial reads
AdapterBusy ==
    /\ \E k \in Slots : bus[k] \in {"stlinkA", "stlinkB"} /\ bus' = [bus EXCEPT ![k] = "busy"]
    /\ last' = [NoCall EXCEPT !.op = "replug"]
    /\ UNCHANGED <<stlink_devices, usb_devices, attached, attached_obj, files,
                   session, device>>

\* the environment: a USB device of another vendor is plugged into a slot
PlugOther ==
    /\ \E k \in Slots : bus[k] # "hub" /\ bus' = [bus EXCEPT ![k] = "hub"]
    /\ last' = [NoCall EXCEPT !.op = "replug"]
    /\ UNCHANGED <<stlink_devices, usb_devices, attached, attached_obj, files,
                   session, device>>

\* exit status of the st-info --probe run that printed stdout
ProbeReturnCode(stdout) == IF stdout = ProbeNothing THEN 1 ELSE 0

\* usb.discover_devices() on the st-info --probe output stdout
DiscoverDevices(stdout) ==
    LET r == discover_devices(bus, stlink_devices, usb_devices, stdout)
    IN  /\ Len(r.devs) <= MaxDevices
        /\ stlink_devices' = r.devs
        /\ usb_devices' = IF r.enumerated THEN PyList(r.usb_devices) ELSE usb_devices
        /\ last' = [NoCall EXCEPT !.op = "discover_devices", !.exc = r.exc,
                                     !.rc = ProbeReturnCode(stdout), !.stdout = stdout,
                                     !.enumerated = r.enumerated]
        /\ UNCHANGED <<bus, attached, attached_obj, files, session, device>>

\* usb.attach_device(usb.found_devices[i - 1])
AttachDevice(i) ==
    /\ i \in 1..Len(stlink_devices)
    /\ attached' = i
    /\ last' = [NoCall EXCEPT !.op = "attach_device"]
    /\ UNCHANGED <<bus, stlink_devices, usb_devices, attached_obj, files, session, device>>

\* a save_device without the test for an attached device
save_device_unguarded(name, filename) ==
    LET call == [NoCall EXCEPT !.op = "save_device", !.path = filename]
        named == DictSet(attached_device, K("name"), PyStr(name))
    IN  /\ StoreAttached(named)
        /\ IF EndsWith(filename, <<".json">>)
           THEN files' = DictSet(files, filename, named) /\ last' = call
           ELSE files' = files /\ last' = [call EXCEPT !.exc = "ValueError"]

\* usb.save_device(name, filename) (l.57-73)
save_device(name, filename) ==
    LET call == [NoCall EXCEPT !.op = "save_device", !.path = filename]
    IN  IF DOMAIN attached_device # {}
        THEN LET named == DictSet(attached_device, K("name"), PyStr(name))
             IN  /\ StoreAttached(named)
                 /\ IF EndsWith(filename, <<".json">>)
                    THEN files' = DictSet(files, filename, named) /\ last' = call
                    ELSE files' = files /\ last' = [call EXCEPT !.exc = "ValueError"]
        ELSE /\ last' = call
             /\ UNCHANGED <<stlink_devices, attached_obj, files>>

SaveDevice(name, filename) ==
    /\ save_device(name, filename)
    /\ UNCHANGED <<bus, usb_devices, attached, session, device>>

\* a load_device without the test of the extension
load_device_any_name(filename) ==
    LET call == [NoCall EXCEPT !.op = "load_device", !.path = filename]
    IN  IF filename \in DOMAIN files
        THEN /\ attached' = 0
             /\ attached_obj' = files[filename]
             /\ last' = call
        ELSE /\ last' = [call EXCEPT !.exc = "FileNotFoundError"]
             /\ UNCHANGED <<attached, attached_obj>>

\* usb.load_device(filename) (l.75-87)
load_device(filename) ==
    LET call == [NoCall EXCEPT !.op = "load_device", !.path = filename]
    IN  IF EndsWith(filename, <<".json">>)
        THEN IF filename \in DOMAIN files
             THEN /\ attached' = 0
                  /\ attached_obj' = files[filename]
                  /\ last' = [call EXCEPT !.exc =
                        IF K("name") \in DOMAIN files[filename] THEN "" ELSE "KeyError"]
             ELSE /\ last' = [call EXCEPT !.exc = "FileNotFoundError"]
                  /\ UNCHANGED <<attached, attached_obj>>
        ELSE /\ last' = [call EXCEPT !.exc = "ValueError"]
             /\ UNCHANGED <<attached, attached_obj>>

LoadDevice(filename) ==
    /\ load_device(filename)
    /\ UNCHANGED <<bus, stlink_devices, usb_devices, files, session, device>>

\* usb.get_port_from_serial(serial) called on the registry (l.96-110)
GetPortFromSerial(serial) ==
    LET r == get_port_from_serial(bus, PyInt(serial))
    IN  /\ usb_devices' = IF r.enumerated THEN PyList(r.usb_devices) ELSE usb_devices
        /\ last' = [NoCall EXCEPT !.op = "get_port_from_serial", !.exc = r.exc,
                                  !.ret = r.val, !.serial = serial,
                                  !.enumerated = r.enumerated]
        /\ UNCHANGED <<bus, stlink_devices, attached, attached_obj, files, session,
                       device>>

\* ------------------------------------------------------------ STLink
\* a re-resolution that does not test what the scan returned
rediscover_no_raise(w, d, usb) ==
    IF K("name") \notin DOMAIN d THEN [exc |-> "KeyError", d |-> d, usb |-> usb]
    ELSE LET r == get_port_from_serial(w, d[K("serial")])
         IN  IF r.exc # ""
             THEN [exc |-> r.exc, d |-> d,
                   usb |-> IF r.enumerated THEN PyList(r.usb_devices) ELSE usb]
             ELSE [exc |-> "", d |-> DictSet(d, K("usb_port"), r.val),
                   usb |-> PyList(r.usb_devices)]

\* the branch of STLink.__init__ taken when the recorded port does not answer with
\* the recorded serial (l.228-234)
rediscover(w, d, usb) ==
    IF K("name") \notin DOMAIN d THEN [exc |-> "KeyError", d |-> d, usb |-> usb]
    ELSE LET r == get_port_from_serial(w, d[K("serial")])
             moved == DictSet(d, K("usb_port"), r.val)
         IN  IF r.exc # ""
             THEN [exc |-> r.exc, d |-> d,
                   usb |-> IF r.enumerated THEN PyList(r.usb_devices) ELSE usb]
             ELSE IF ~Truthy(r.val)
             THEN [exc |-> "ConnectionError", d |-> moved, usb |-> PyList(r.usb_devices)]
             ELSE [exc |-> "", d |-> moved, usb |-> PyList(r.usb_devices)]

\* STLink.__init__(usb_dev) (l.225-237): the exception it ends in, the dict
\* attached_device refers to afterwards, and self.usb_devices afterwards
stlink_init(w, d, usb) ==
    IF K("serial") \notin DOMAIN d THEN [exc |-> "KeyError", d |-> d, usb |-> usb]
    ELSE IF K("usb_port") \notin DOMAIN d THEN [exc |-> "KeyError", d |-> d, usb |-> usb]
    ELSE LET read == get_serial_number(w, d[K("usb_port")])
         IN  IF read.exc # "" THEN [exc |-> read.exc, d |-> d, usb |-> usb]
             ELSE IF ~PyEq(d[K("serial")], read.val) THEN rediscover(w, d, usb)
             ELSE [exc |-> "", d |-> d, usb |-> usb]

\* stlink = STLink(usb)
NewSTLink ==
    LET r == stlink_init(bus, attached_device, usb_devices)
    IN  /\ StoreAttached(r.d)
        /\ usb_devices' = r.usb
        /\ session' = (session \/ r.exc = "")
        /\ last' = [NoCall EXCEPT !.op = "STLink", !.exc = r.exc,
                                  !.port = IF K("usb_port") \in DOMAIN r.d
                                           THEN r.d[K("usb_port")] ELSE None]
        /\ UNCHANGED <<bus, attached, files, device>>

\* the three commands of l.243, l.252 and l.259
StFlashCommands ==
    {<<"st-flash", SP, "erase">>,
     <<"st-flash", SP, "write", SP, "ChimeraDevelopment.bin", SP, "0x08000000">>,
     <<"st-flash", SP, "reset">>}

OpOf(tail) == CASE tail[3] = "erase" -> "erase" [] tail[3] = "write" -> "flash"
                [] OTHER -> "reset"

\* erase, flash and reset (l.239-260): build the command from self.stlink.port and
\* run it; returncode is the exit status of the st-flash process
stlink_run(d, tail, returncode) ==
    LET call == [NoCall EXCEPT !.op = OpOf(tail)]
    IN  IF K("usb_port") \notin DOMAIN d THEN [call EXCEPT !.exc = "KeyError"]
        ELSE IF d[K("usb_port")].t # "str" THEN [call EXCEPT !.exc = "TypeError"]
        ELSE [call EXCEPT !.port = d[K("usb_port")],
                          !.cmd = <<"export", SP, "STLINK_DEVICE", "=">>
                                  \o d[K("usb_port")].v \o <<";", SP>> \o tail,
                          !.rc = returncode]

StFlash(tail, returncode) ==
    /\ session
    /\ last' = stlink_run(attached_device, tail, returncode)
    /\ UNCHANGED <<bus, stlink_devices, usb_devices, attached, attached_obj, files,
                   session, device>>

\* ------------------------------------------------------------ STM32BinaryFlasher
\* self.no_dev_err (flasher.py l.18)
no_dev_err == <<"Found", SP, "0", SP, "stlink", SP, "programmers", NL>>

\* self.supported_devices (l.20-26), in insertion order
supported_names == <<"STM32F76xx", "STM32F77xx", "STM32F446xx">>
supported_ids == <<1105, 1105, 1057>>

IsSupported(name) == \E i \in 1..Len(supported_names) : supported_names[i] = name
IdOf(name) == supported_ids[CHOOSE i \in 1..Len(supported_names) : supported_names[i] = name]

\* _device_from_id (l.28-29): list.index raises ValueError for a value not in it
device_from_id(id) ==
    IF \E i \in 1..Len(supported_ids) : supported_ids[i] = id
    THEN Returned(PyStr(<<supported_names[
            CHOOSE i \in 1..Len(supported_ids) :
                supported_ids[i] = id /\ \A j \in 1..(i - 1) : supported_ids[j] # id]>>))
    ELSE Raised("ValueError")

\* _index_of_substring (l.31-35), 0-based, -1 when no entry contains it
index_of_substring(string_list, substring) ==
    IF \E i \in 1..Len(string_list) : Contains(string_list[i], substring)
    THEN (CHOOSE i \in 1..Len(string_list) :
            /\ Contains(string_list[i], substring)
            /\ \A j \in 1..(i - 1) : ~Contains(string_list[j], substring)) - 1
    ELSE -1

\* lst[i] of Python for i >= -1 on a non-empty list: -1 is the last entry
PyIndex(lst, i) == IF i < 0 THEN lst[Len(lst) + 1 + i] ELSE lst[i + 1]

\* _clean_probe (l.37-49): the exception it ends in and self.device afterwards
clean_probe(dev, stdout) ==
    LET probe_data == MapStrip(Split(stdout, NL))
        dev1 == DictSet(dev, K("probe_msg"), PyStr(probe_data[1]))
    IN  IF Contains(dev1[K("probe_msg")].v, no_dev_err) THEN [exc |-> "", d |-> dev1]
        ELSE LET string == Split(PyIndex(probe_data,
                                 index_of_substring(probe_data, <<"chipid">>)), SP)
                 id == IF Len(string) < 2 THEN Raised("IndexError")
                       ELSE IntHex(PyStr(string[2]))
             IN  IF id.exc # "" THEN [exc |-> id.exc, d |-> dev1]
                 ELSE [exc |-> "", d |-> DictSet(dev1, K("chip_id"), id.val)]

\* check_connection (l.52-69): exception, return value ("True", "False" or "None"
\* when it falls off its end) and self.device afterwards
check_connection(dev, expected_device, stdout) ==
    IF ~IsSupported(expected_device) THEN [exc |-> "", ret |-> "False", d |-> dev]
    ELSE LET c == clean_probe(dev, stdout)
         IN  IF c.exc # "" THEN [exc |-> c.exc, ret |-> "None", d |-> c.d]
             ELSE IF Contains(c.d[K("probe_msg")].v, no_dev_err)
             THEN [exc |-> "", ret |-> "False", d |-> c.d]
             ELSE IF K("chip_id") \notin DOMAIN c.d
             THEN [exc |-> "KeyError", ret |-> "None", d |-> c.d]
             ELSE IF c.d[K("chip_id")].v # IdOf(expected_device)
             THEN [exc |-> device_from_id(c.d[K("chip_id")].v).exc, ret |-> "None",
                   d |-> c.d]
             ELSE [exc |-> "", ret |-> "True", d |-> c.d]

ExpectedDevices == {"STM32F76xx", "STM32F77xx", "STM32F446xx", "STM32F103xx"}

FlasherProbes ==
    {ProbeOneA, ProbeOneB, ProbeZero, ProbeUnknownChip, ProbeTruncated, ProbeNothing,
     SubSeq(ProbeZero, 1, Len(ProbeZero) - 1)}

\* flasher.check_connection(expected_device) on the st-info --probe output stdout
CheckConnection(expected_device, stdout) ==
    LET r == check_connection(device, expected_device, stdout)
    IN  /\ device' = r.d
        /\ last' = [NoCall EXCEPT !.op = "check_connection", !.exc = r.exc,
                                  !.ret = PyStr(<<r.ret>>), !.stdout = stdout,
                                  !.expected = <<expected_device>>]
        /\ UNCHANGED <<bus, stlink_devices, usb_devices, attached, attached_obj, files,
                       session>>

\* flash_device (l.71-78); returncode is the exit status of st-flash write
flash_device(returncode) ==
    [NoCall EXCEPT !.op = "flash_device",
                   !.cmd = <<"st-flash", SP, "write", SP, "TestBinaries/STM32F7xxx", "/",
                             "ChimeraDevelopment.bin", SP, "0x80000000">>,
                   !.rc = returncode,
                   !.exc = IF returncode # 0 THEN "RuntimeError" ELSE ""]

FlashDevice(returncode) ==
    /\ last' = flash_device(returncode)
    /\ UNCHANGED <<bus, stlink_devices, usb_devices, attached, attached_obj, files,
                   session, device>>

\* ------------------------------------------------------------ specifications
ReturnCodes == {0, 1}
ProbeOutputs == WellFormedProbes \cup MalformedProbes \cup {ProbeZero}
Serials == {12345, 1, 2, -1}

\* discovery passes of the registry while adapters come and go
NextProbe ==
    \/ Replug
    \/ \E stdout \in WellFormedProbes \cup {ProbeZero} : DiscoverDevices(stdout)

SpecProbe == Init /\ [][NextProbe]_vars

\* discovery passes on any probe output, malformed ones included
NextProbeAny ==
    \/ Replug
    \/ AdapterBusy
    \/ \E stdout \in ProbeOutputs : DiscoverDevices(stdout)

SpecProbeAny == Init /\ [][NextProbeAny]_vars

\* port resolution while adapters come and go
NextResolve ==
    \/ Replug
    \/ PlugClone
    \/ AdapterBusy
    \/ PlugOther
    \/ \E serial \in Serials : GetPortFromSerial(serial)

SpecResolve == Init /\ [][NextResolve]_vars

\* saving and loading the attached device
NextStore ==
    \/ \E stdout \in {ProbeOneA, ProbeOneB} : DiscoverDevices(stdout)
    \/ \E i \in 1..MaxDevices : AttachDevice(i)
    \/ \E name \in DeviceNames, filename \in FileNames : SaveDevice(name, filename)
    \/ \E filename \in FileNames : LoadDevice(filename)

SpecStore == Init /\ [][NextStore]_vars

\* a session on the attached device while adapters come and go
Next ==
    \/ Replug
    \/ DiscoverDevices(ProbeOneA)
    \/ \E i \in 1..MaxDevices : AttachDevice(i)
    \/ SaveDevice(<<"stm32f767zit">>, <<"dev", ".json">>)
    \/ NewSTLink
    \/ \E tail \in StFlashCommands, returncode \in ReturnCodes : StFlash(tail, returncode)

Spec == Init /\ [][Next]_vars

\* the stand-alone flasher script
NextFlasher ==
    \/ \E e \in ExpectedDevices, stdout \in FlasherProbes : CheckConnection(e, stdout)
    \/ \E returncode \in ReturnCodes : FlashDevice(returncode)

SpecFlasher == Init /\ [][NextFlasher]_vars

\* ------------------------------------------------------------ properties
\* what a scoped serial read at slot k yields: the adapter's serial, -1 when the
\* read fails
ReadAt(k) == IF bus[k] \in {"stlinkA", "stlinkB"} THEN SerialOf(bus[k]) ELSE -1

\* the slots lsusb lists under the ST-Link vendor id, and those among them whose
\* serial read yields serial
StLinkSlots == {k \in Slots : bus[k] \in Adapters}
MatchingSlots(serial) == {k \in StLinkSlots : ReadAt(k) = serial}
FirstSlot(S) == CHOOSE k \in S : \A j \in S : k <= j

\* the n-th (1-based) slot of StLinkSlots in enumeration order
NthStLinkSlot(n) == CHOOSE k \in StLinkSlots : Cardinality({j \in StLinkSlots : j < k}) = n - 1

\* C3: get_port_from_serial re-runs the enumeration on every call (usb_devices holds
\* exactly the ST-Link-vendor entries of the bus as it is now, in order), returns the
\* bus:address of the first enumerated entry whose serial read equals the target, and
\* returns None exactly when no enumerated entry's read equals it
C3_ResolveFirstMatch ==
    last.op = "get_port_from_serial" =>
        /\ last.exc = ""
        /\ Len(usb_devices.v) = Cardinality(StLinkSlots)
        /\ \A n \in 1..Len(usb_devices.v) :
              usb_devices.v[n].device =
                  <<"/", "dev", "/", "bus", "/", "usb", "/">>
                  \o <<SlotBus(NthStLinkSlot(n)), "/", SlotDevice(NthStLinkSlot(n))>>
        /\ (last.ret.t = "None") <=> (MatchingSlots(last.serial) = {})
        /\ MatchingSlots(last.serial) # {} =>
              /\ last.ret.t = "str"
              /\ last.ret.v = SlotPort(FirstSlot(MatchingSlots(last.serial)))

\* a call that skipped an entry whose read failed and a foreign device, and found
\* the adapter behind them
C3_Witness ==
    /\ last.op = "get_port_from_serial"
    /\ last.ret.t = "str"
    /\ \E k \in Slots : bus[k] \in {"busy", "hub"} /\ SlotPort(k) # last.ret.v

\* the attached record has the fields the session reads
AttachedIsRecord ==
    /\ K("serial") \in DOMAIN attached_device
    /\ K("usb_port") \in DOMAIN attached_device

\* the port holds an adapter whose serial read equals the attached serial
Confirms(port) ==
    /\ port.t = "str"
    /\ \E k \in StLinkSlots :
          SlotPort(k) = port.v /\ PyInt(ReadAt(k)) = attached_device[K("serial")]

StFlashOps == {"erase", "flash", "reset"}

C2_ReconcileTwoOutcomes ==
    (last.op = "STLink" /\ AttachedIsRecord) =>
        \/ last.exc = "" /\ Confirms(attached_device[K("usb_port")])
        \/ /\ last.exc = "ConnectionError"
           /\ attached_device[K("serial")].t = "int"
           /\ MatchingSlots(attached_device[K("serial")].v) = {}

\* C7: no call returns normally after the external tool it ran exited non-zero
C7_NonZeroExitSurfaced ==
    last.rc # 0 => last.exc # ""

\* C8 as claimed: save_device with no device attached ends in an error
C8_SaveWithoutDeviceFails ==
    (last.op = "save_device" /\ DOMAIN attached_device = {}) => last.exc # ""

\* C8 as the code has it: save_device with no device attached returns normally, for
\* every name and destination, and writes no document
C8_SaveWithoutDeviceWritesNothing ==
    [][(last'.op = "save_device" /\ DOMAIN attached_device = {}) =>
          /\ last'.exc = ""
          /\ files' = files
          /\ DOMAIN attached_device' = {}]_vars

C8_Witness ==
    /\ last.op = "save_device"
    /\ DOMAIN attached_device = {}
    /\ EndsWith(last.path, <<".json">>)
    /\ last.exc = ""

StoreOps == {"save_device", "load_device"}

\* C9 as claimed: save_device and load_device with a name that does not end in .json
\* fail with ValueError, whatever is attached
C9_BadExtensionAlwaysValueError ==
    (last.op \in StoreOps /\ ~EndsWith(last.path, <<".json">>)) => last.exc = "ValueError"

\* C9 as the code has it: with a name that does not end in .json no file is opened,
\* created or modified; load_device fails with ValueError and leaves the attached
\* device alone; save_device fails with ValueError exactly when a device is attached
\* and returns normally when none is
C9_BadExtensionTouchesNoFile ==
    [][(last'.op \in StoreOps /\ ~EndsWith(last'.path, <<".json">>)) =>
          /\ files' = files
          /\ last'.op = "load_device" =>
                /\ last'.exc = "ValueError"
                /\ attached' = attached /\ attached_obj' = attached_obj
          /\ last'.op = "save_device" =>
                (last'.exc = "ValueError" <=> DOMAIN attached_device # {})]_vars

C9_Witness ==
    /\ last.op = "save_device"
    /\ ~EndsWith(last.path, <<".json">>)
    /\ last.exc = "ValueError"
    /\ files # EmptyDict

\* the records a well-formed probe output describes, field by field
RecordA ==
    [serial |-> PyInt(12345), flash |-> PyInt(1024), sram |-> PyInt(256),
     chipid |-> PyInt(1105), openocd |-> PyStr(<<"30", "31">>)]
RecordB ==
    [serial |-> PyInt(1), flash |-> PyInt(1024), sram |-> PyInt(256),
     chipid |-> PyInt(1057), openocd |-> PyStr(<<"30", "31">>)]

ExpectedRecords(stdout) ==
    CASE stdout = ProbeOneA -> <<RecordA>>
      [] stdout = ProbeOneB -> <<RecordB>>
      [] stdout = ProbeTwo -> <<RecordA, RecordB>>
      [] OTHER -> <<>>

RecordFields == {"serial", "flash", "sram", "chipid", "openocd"}

\* the dict holds every field of a DeviceRecord, coerced
Populated(d) ==
    /\ \A f \in RecordFields : K(f) \in DOMAIN d
    /\ \A f \in RecordFields \ {"openocd"} : d[K(f)].t = "int"
    /\ d[K("openocd")].t = "str"
    /\ ~Contains(d[K("openocd")].v, <<"\"">>)
    /\ ~Contains(d[K("openocd")].v, <<"\\x">>)

IsRecord(d, rec) ==
    /\ Populated(d)
    /\ d[K("serial")] = rec.serial /\ d[K("flash")] = rec.flash
    /\ d[K("sram")] = rec.sram /\ d[K("chipid")] = rec.chipid
    /\ d[K("openocd")] = rec.openocd

\* C4: after every discovery pass on a well-formed probe output of N >= 1 blocks,
\* found_devices holds exactly N records, one per block, with the fields coerced
C4_DiscoverYieldsExactlyTheProbedRecords ==
    (last.op = "discover_devices" /\ last.stdout \in WellFormedProbes) =>
        /\ last.exc = ""
        /\ Len(found_devices) = Len(ExpectedRecords(last.stdout))
        /\ \A i \in 1..Len(found_devices) :
              i <= Len(ExpectedRecords(last.stdout))
                  => IsRecord(found_devices[i], ExpectedRecords(last.stdout)[i])

\* C5: a discovery pass on a probe output reporting zero adapters completes without
\* error, leaves found_devices empty and attempts no USB enumeration
C5_ZeroProbeLeavesRegistryEmpty ==
    (last.op = "discover_devices" /\ last.stdout = ProbeZero) =>
        /\ last.exc = ""
        /\ found_devices = <<>>
        /\ ~last.enumerated

\* C6: a probe output with a truncated block or a field that is no integer makes the
\* pass fail, and found_devices then holds no partially populated record
C6_MalformedProbeLeavesNoPartialRecord ==
    (last.op = "discover_devices" /\ last.stdout \in {ProbeTruncated, ProbeBadFlash}) =>
        /\ last.exc # ""
        /\ \A i \in 1..Len(found_devices) : Populated(found_devices[i])

\* the chip id a probe output reports, 0 when it reports no programmer
ProbedChip(stdout) ==
    CASE stdout = ProbeOneA -> 1105
      [] stdout = ProbeOneB -> 1057
      [] stdout = ProbeUnknownChip -> 1043
      [] OTHER -> 0

\* C10: check_connection never raises; it returns True exactly when the expected
\* device is supported, a programmer is reported and its chip id is the one
\* registered for the expected device, and False in every other case
C10_CheckConnectionTotal ==
    (last.op = "check_connection"
        /\ last.stdout \in {ProbeOneA, ProbeOneB, ProbeUnknownChip, ProbeZero}) =>
        /\ last.exc = ""
        /\ last.ret.v \in {<<"True">>, <<"False">>}
        /\ (last.ret.v = <<"True">>) <=>
              /\ IsSupported(last.expected[1])
              /\ ProbedChip(last.stdout) # 0
              /\ ProbedChip(last.stdout) = IdOf(last.expected[1])

====
